---- MODULE Spec2Model ----
(***************************************************************************)
(* Crawl run of the stagehand crawler example (the run script's main):     *)
(* the pending-URL queue, the crawled set, the per-URL try/catch and the   *)
(* link filter, with URL strings modelled as sequences of one-character    *)
(* strings so that parsing, resolution and serialisation are computed.     *)
(***************************************************************************)
EXTENDS Integers, Sequences, FiniteSets, TLC

(***************************************************************************)
(* Bounds of the model.                                                    *)
(***************************************************************************)
\* page budget of a run; the run script sets 10 (part_000:205), the model
\* explores a smaller budget so that runs reach it
maxUrlsToCrawl == 3
\* longest list of hrefs a page returns
MaxLinks == 2
\* longest URL a page links to, in characters
MaxUrlLen == 36
\* longest element list of a page handed to an analyzer
MaxElements == 4
\* calls of the rule-based analyzer on one CrawlResult
MaxRuns == 2

(***************************************************************************)
(* Strings: sequences of one-character strings.                            *)
(***************************************************************************)
LowerLetters == <<"a", "b", "c", "d", "e", "f", "g", "h", "i", "j", "k", "l", "m", "n", "o", "p", "q", "r", "s", "t", "u", "v", "w", "x", "y", "z">>
UpperLetters == <<"A", "B", "C", "D", "E", "F", "G", "H", "I", "J", "K", "L", "M", "N", "O", "P", "Q", "R", "S", "T", "U", "V", "W", "X", "Y", "Z">>
Digits == {"0", "1", "2", "3", "4", "5", "6", "7", "8", "9"}
Letters == {LowerLetters[i] : i \in 1..26} \cup {UpperLetters[i] : i \in 1..26}

\* the lower-case letter of every upper-case letter
LowerOf ==
  [c \in {UpperLetters[i] : i \in 1..26} |->
     LowerLetters[CHOOSE i \in 1..26 : UpperLetters[i] = c]]

\* String.prototype.toLowerCase, one character
toLowerChar(c) == IF c \in DOMAIN LowerOf THEN LowerOf[c] ELSE c

\* String.prototype.toLowerCase
toLowerCase(s) == [i \in 1..Len(s) |-> toLowerChar(s[i])]

\* String.prototype.includes
includes(s, t) ==
  \E i \in 0..(Len(s) - Len(t)) : \A k \in 1..Len(t) : s[i + k] = t[k]

\* String.prototype.startsWith
startsWith(s, t) == Len(s) >= Len(t) /\ SubSeq(s, 1, Len(t)) = t

\* index of the first character of s that is in cs, Len(s)+1 when none is
firstOf(s, cs) ==
  LET at == {i \in 1..Len(s) : s[i] \in cs}
  IN IF at = {} THEN Len(s) + 1 ELSE CHOOSE i \in at : \A j \in at : i <= j

\* index of the last character of s that is in cs, 0 when none is
lastOf(s, cs) ==
  LET at == {i \in 1..Len(s) : s[i] \in cs}
  IN IF at = {} THEN 0 ELSE CHOOSE i \in at : \A j \in at : j <= i

\* the characters of s from position i on
from(s, i) == SubSeq(s, i, Len(s))

(***************************************************************************)
(* URL: the fields of a parsed WHATWG URL the run script reads, and the    *)
(* parser behind `new URL(input)` and `new URL(input, base)`.              *)
(***************************************************************************)
HTTPS == <<"h", "t", "t", "p", "s", ":">>
HTTP == <<"h", "t", "t", "p", ":">>
SpecialSchemes == {HTTPS, HTTP, <<"f", "t", "p", ":">>, <<"w", "s", ":">>, <<"w", "s", "s", ":">>}

\* the port a special scheme leaves out of the serialisation
defaultPort(protocol) ==
  IF protocol = HTTPS THEN <<"4", "4", "3">>
  ELSE IF protocol = HTTP THEN <<"8", "0">>
  ELSE <<"-">>

\* result of a failed parse: `new URL` throws TypeError
InvalidURL ==
  [ok |-> FALSE, protocol |-> <<>>, hostname |-> <<>>, port |-> <<>>,
   pathname |-> <<>>, search |-> <<>>, hash |-> <<>>]

\* the segments of a path: the strings between its slashes ("/a/" gives a, "")
RECURSIVE pathSegments(_)
pathSegments(p) ==
  IF p = <<>> THEN <<>>
  ELSE LET rest == Tail(p)
           e == firstOf(rest, {"/"})
       IN <<SubSeq(rest, 1, e - 1)>> \o pathSegments(from(rest, e))

\* dot-segment removal over a list of segments, left to right
RECURSIVE removeDots(_, _)
removeDots(segs, out) ==
  IF segs = <<>> THEN out
  ELSE LET s == Head(segs)
           last == Len(segs) = 1
           popped == IF out = <<>> THEN out ELSE SubSeq(out, 1, Len(out) - 1)
       IN IF s = <<".", ".">>
          THEN removeDots(Tail(segs), IF last THEN Append(popped, <<>>) ELSE popped)
          ELSE IF s = <<".">>
          THEN removeDots(Tail(segs), IF last THEN Append(out, <<>>) ELSE out)
          ELSE removeDots(Tail(segs), Append(out, s))

\* a list of segments back to a path, every segment preceded by a slash
RECURSIVE joinSegments(_)
joinSegments(segs) ==
  IF segs = <<>> THEN <<>>
  ELSE <<"/">> \o Head(segs) \o joinSegments(Tail(segs))

\* the pathname of a special-scheme URL: never empty, dot segments removed
normalizePath(p) ==
  IF p = <<>> THEN <<"/">>
  ELSE LET segs == removeDots(pathSegments(p), <<>>)
       IN IF segs = <<>> THEN <<"/">> ELSE joinSegments(segs)

\* query and fragment of what follows the path
searchOf(s) ==
  LET q == firstOf(s, {"?", "#"})
      h == firstOf(s, {"#"})
  IN IF q <= Len(s) /\ s[q] = "?" /\ h - q > 1 THEN SubSeq(s, q, h - 1) ELSE <<>>

hashOf(s) ==
  LET h == firstOf(s, {"#"})
  IN IF Len(s) - h >= 1 THEN from(s, h) ELSE <<>>

\* characters a host may not hold
ForbiddenHostChars == {" ", "<", ">", "[", "]", "^", "|", "%", "\\"}

\* scheme://authority/path?query#fragment of a special scheme, `s` being
\* what follows the two slashes
parseAuthorityAndPath(protocol, s) ==
  LET e == firstOf(s, {"/", "?", "#"})
      authority == SubSeq(s, 1, e - 1)
      hostport == from(authority, lastOf(authority, {"@"}) + 1)
      c == firstOf(hostport, {":"})
      host == SubSeq(hostport, 1, c - 1)
      rawPort == from(hostport, c + 1)
      afterAuth == from(s, e)
      p == firstOf(afterAuth, {"?", "#"})
  IN IF host = <<>> \/ (\E i \in 1..Len(host) : host[i] \in ForbiddenHostChars)
        \/ (\E i \in 1..Len(rawPort) : rawPort[i] \notin Digits)
        \/ Len(rawPort) > 5
     THEN InvalidURL
     ELSE [ok |-> TRUE, protocol |-> protocol, hostname |-> toLowerCase(host),
           port |-> IF rawPort = defaultPort(protocol) THEN <<>> ELSE rawPort,
           pathname |-> normalizePath(SubSeq(afterAuth, 1, p - 1)),
           search |-> searchOf(afterAuth), hash |-> hashOf(afterAuth)]

\* length of the scheme of s with its colon, 0 when s does not start with one
schemeLen(s) ==
  LET c == firstOf(s, {":"})
  IN IF c <= Len(s) /\ c > 1 /\ s[1] \in Letters
        /\ \A i \in 1..(c - 1) : s[i] \in Letters \cup Digits \cup {"+", "-", "."}
     THEN c ELSE 0

\* leading slashes of s dropped
RECURSIVE dropSlashes(_)
dropSlashes(s) ==
  IF s # <<>> /\ Head(s) = "/" THEN dropSlashes(Tail(s)) ELSE s

\* new URL(input): an absolute URL, or a failure
parseAbsolute(s) ==
  LET n == schemeLen(s)
      protocol == toLowerCase(SubSeq(s, 1, n))
      rest == from(s, n + 1)
      p == firstOf(rest, {"?", "#"})
  IN IF n = 0 THEN InvalidURL
     ELSE IF protocol \in SpecialSchemes
     THEN parseAuthorityAndPath(protocol, dropSlashes(rest))
     ELSE [ok |-> TRUE, protocol |-> protocol, hostname |-> <<>>, port |-> <<>>,
           pathname |-> SubSeq(rest, 1, p - 1),
           search |-> searchOf(rest), hash |-> hashOf(rest)]

\* new URL(input, base): input resolved against the parsed base
resolve(s, base) ==
  LET p == firstOf(s, {"?", "#"})
      path == SubSeq(s, 1, p - 1)
      baseDir == SubSeq(base.pathname, 1, lastOf(base.pathname, {"/"}))
      n == schemeLen(s)
      sameScheme == n > 0 /\ base.ok /\ toLowerCase(SubSeq(s, 1, n)) = base.protocol
                      /\ base.protocol \in SpecialSchemes
                      /\ ~startsWith(from(s, n + 1), <<"/">>)
  IN IF n > 0 /\ ~sameScheme THEN parseAbsolute(s)
     ELSE IF ~base.ok THEN InvalidURL
     ELSE IF sameScheme
     THEN [base EXCEPT
             !.pathname = normalizePath(baseDir \o SubSeq(s, n + 1, p - 1)),
             !.search = searchOf(s), !.hash = hashOf(s)]
     ELSE IF startsWith(s, <<"/", "/">>)
     THEN parseAuthorityAndPath(base.protocol, from(s, 3))
     ELSE IF s = <<>> THEN [base EXCEPT !.hash = <<>>]
     ELSE IF Head(s) = "#" THEN [base EXCEPT !.hash = hashOf(s)]
     ELSE IF Head(s) = "?"
     THEN [base EXCEPT !.search = searchOf(s), !.hash = hashOf(s)]
     ELSE [base EXCEPT
             !.pathname = normalizePath(IF Head(s) = "/" THEN path ELSE baseDir \o path),
             !.search = searchOf(s), !.hash = hashOf(s)]

\* URL.href: the serialisation of a parsed URL
href(u) ==
  u.protocol \o (IF u.protocol \in SpecialSchemes THEN <<"/", "/">> ELSE <<>>)
  \o u.hostname \o (IF u.port = <<>> THEN <<>> ELSE <<":">> \o u.port)
  \o u.pathname \o u.search \o u.hash

(***************************************************************************)
(* The run: main() of the run script, from the queue set-up to the end of  *)
(* the while loop.                                                         *)
(***************************************************************************)
\* const startUrl
startUrl == <<"h", "t", "t", "p", "s", ":", "/", "/", "w", "w", "w", ".", "t", "e", "s", "t", "d", "u", "m", "m", "y", ".", "a", "i", "/", "d", "a", "s", "h", "b", "o", "a", "r", "d">>

\* const baseUrlObj = new URL(startUrl)
baseUrlObj == parseAbsolute(startUrl)

\* the hrefs a page may hold (what page.evaluate returns, one by one)
LinkDocs == <<"h", "t", "t", "p", "s", ":", "/", "/", "w", "w", "w", ".", "t", "e", "s", "t", "d", "u", "m", "m", "y", ".", "a", "i", "/", "d", "o", "c", "s">>
LinkDocsQuery == <<"/", "d", "o", "c", "s", "?", "p", "=", "2", "#", "x">>
LinkDocsPort == <<"h", "t", "t", "p", "s", ":", "/", "/", "W", "W", "W", ".", "t", "e", "s", "t", "d", "u", "m", "m", "y", ".", "a", "i", ":", "8", "4", "4", "3", "/", "d", "o", "c", "s", "#", "x">>
LinkDocsHttp == <<"h", "t", "t", "p", ":", "/", "/", "w", "w", "w", ".", "t", "e", "s", "t", "d", "u", "m", "m", "y", ".", "a", "i", "/", "d", "o", "c", "s">>
LinkSub == <<"d", "o", "c", "s", "/">>
LinkLogin == <<"/", "l", "o", "g", "i", "n", "?", "x", "=", "1", "#", "y">>
LinkLoginCaps == <<"/", "L", "o", "g", "i", "n">>
LinkOtherHost == <<"h", "t", "t", "p", "s", ":", "/", "/", "e", "v", "i", "l", ".", "e", "x", "a", "m", "p", "l", "e", "/", "d", "o", "c", "s">>
LinkMalformed == <<"h", "t", "t", "p", "s", ":", "/", "/">>

LinkUniverse ==
  {LinkDocs, LinkDocsQuery, LinkDocsPort, LinkDocsHttp, LinkSub, LinkLogin,
   LinkLoginCaps, LinkOtherHost, LinkMalformed}


\* mutant of loopGuard: the budget compared with <=
loopGuard_offByOne(queue, crawled) ==
  Len(queue) > 0 /\ Cardinality(crawled) <= maxUrlsToCrawl

\* while (urlQueue.length > 0 && crawledUrls.size < maxUrlsToCrawl)
loopGuard(queue, crawled) ==
  Len(queue) > 0 /\ Cardinality(crawled) < maxUrlsToCrawl

\* mutant of shift: the last element is taken (pop)
shift_pop(queue) ==
  [url |-> queue[Len(queue)], rest |-> SubSeq(queue, 1, Len(queue) - 1)]

\* urlQueue.shift(): the element taken and the queue left
shift(queue) == [url |-> Head(queue), rest |-> Tail(queue)]

\* mutant of markCrawled: the URL is not added
markCrawled_late(crawled, u) == crawled

\* crawledUrls.add(url)
markCrawled(crawled, u) == crawled \cup {u}

\* mutant of otherDomain: the protocol compared instead of the hostname
otherDomain_protocol(linkUrlObj) == linkUrlObj.protocol # baseUrlObj.protocol

\* linkUrlObj.hostname !== baseUrlObj.hostname
otherDomain(linkUrlObj) == linkUrlObj.hostname # baseUrlObj.hostname

\* mutant of cleanUrlOf: the query string is kept
cleanUrlOf_withSearch(linkUrlObj) ==
  linkUrlObj.protocol \o <<"/", "/">> \o linkUrlObj.hostname \o linkUrlObj.pathname
  \o linkUrlObj.search

\* const cleanUrl = `${protocol}//${hostname}${pathname}`
cleanUrlOf(linkUrlObj) ==
  linkUrlObj.protocol \o <<"/", "/">> \o linkUrlObj.hostname \o linkUrlObj.pathname

\* the login/logout test on cleanUrl
isSessionPage(cleanUrl) ==
  \/ includes(cleanUrl, <<"/", "l", "o", "g", "i", "n">>)
  \/ includes(cleanUrl, <<"/", "l", "o", "g", "o", "u", "t">>)
  \/ includes(cleanUrl, <<"/", "s", "i", "g", "n", "i", "n">>)
  \/ includes(cleanUrl, <<"/", "s", "i", "g", "n", "o", "u", "t">>)

\* mutant of alreadyKnown: the crawled set is not looked at
alreadyKnown_queueOnly(cleanUrl, queue, crawled) ==
  \E i \in 1..Len(queue) : queue[i] = cleanUrl

\* mutant of alreadyKnown: the queue is not looked at
alreadyKnown_crawledOnly(cleanUrl, queue, crawled) == cleanUrl \in crawled

\* crawledUrls.has(cleanUrl) || urlQueue.includes(cleanUrl)
alreadyKnown(cleanUrl, queue, crawled) ==
  cleanUrl \in crawled \/ \E i \in 1..Len(queue) : queue[i] = cleanUrl

\* mutant of innerCatch: the TypeError reaches the per-link catch and is logged
innerCatch_logged == "error"

\* the catch around `new URL(link, url)`: continue, nothing logged
innerCatch == "invalid"

\* body of `for (const link of links)`: the queue it leaves, how the link
\* ended ("invalid": inner catch, continue; "error": per-link catch, logged)
\* and the absoluteUrl it computed
processLink(link, u, queue, crawled) ==
  LET resolved == resolve(link, parseAbsolute(u))
      absoluteUrl == href(resolved)
      linkUrlObj == parseAbsolute(absoluteUrl)
      cleanUrl == cleanUrlOf(linkUrlObj)
      outcome ==
        IF ~resolved.ok THEN innerCatch
        ELSE IF ~linkUrlObj.ok THEN "error"
        ELSE IF otherDomain(linkUrlObj) THEN "otherDomain"
        ELSE IF isSessionPage(cleanUrl) THEN "sessionPage"
        ELSE IF alreadyKnown(cleanUrl, queue, crawled) THEN "known"
        ELSE "pushed"
  IN [queue |-> IF outcome = "pushed" THEN Append(queue, cleanUrl) ELSE queue,
      outcome |-> outcome, absoluteUrl |-> absoluteUrl]

\* mutant of afterUrlError: the error ends the loop
afterUrlError_fatal == "done"

\* where the run goes from the per-URL catch: log, next turn of the loop
afterUrlError == "loop"

\* where the try block goes after the rule-based part
afterRuleBased(llm) == IF llm THEN "crawlLLM" ELSE "extract"

(***************************************************************************)
(* The analyzers: ElementInfo and CrawlResult (PageCrawler.ts), the        *)
(* rule-based ActionAnalyzer and the LLMActionAnalyzer.  A confidence is   *)
(* kept in hundredths (0.9 is 90).  An attribute that is absent and one    *)
(* that is the empty string are the same to every test the analyzers make  *)
(* (optional chaining, truthiness, ===), so both are the empty string.     *)
(***************************************************************************)
VARIABLES
  crawlResult,   \* the CrawlResult handed to the analyzer
  passed,        \* history: the CrawlResult as it was when first handed over
  runs,          \* history: calls of analyzeActions on crawlResult so far
  actions,       \* what the last call of the rule-based analyzeActions returned
  previous,      \* history: what the call before the last returned
  llm,           \* the LLM analyzeActions: "idle", "returned" or "threw"
  completion,    \* history: what the completion call of the LLM analyzer did
  llmActions     \* what the LLM analyzeActions returned

analyzerVars == <<crawlResult, passed, runs, actions, previous, llm, completion, llmActions>>

NoAttributes ==
  [type |-> <<>>, name |-> <<>>, id |-> <<>>, placeholder |-> <<>>, class |-> <<>>,
   role |-> <<>>, href |-> <<>>, ariaLabel |-> <<>>]

\* Array.prototype.join(' ')
joinParts(parts) ==
  LET RECURSIVE j(_)
      j(n) == IF n = 0 THEN <<>>
              ELSE IF n = 1 THEN parts[1]
              ELSE j(n - 1) \o <<" ">> \o parts[n]
  IN j(Len(parts))

\* PageCrawler.generateDescription
generateDescription(info) ==
  LET quoted(s) == <<"\"">> \o s \o <<"\"">>
      part(value, words) == IF value # <<>> THEN <<words \o <<" ">> \o quoted(value)>> ELSE <<>>
      shown == IF Len(info.text) > 50
               THEN SubSeq(info.text, 1, 50) \o <<".", ".", ".">>
               ELSE info.text
  IN joinParts(
       <<info.type>>
       \o part(info.attributes.id, <<"w", "i", "t", "h", " ", "i", "d">>)
       \o part(info.attributes.name, <<"n", "a", "m", "e", "d">>)
       \o part(info.attributes.placeholder, <<"w", "i", "t", "h", " ", "p", "l", "a", "c", "e", "h", "o", "l", "d", "e", "r">>)
       \o part(info.attributes.ariaLabel, <<"l", "a", "b", "e", "l", "e", "d">>)
       \o part(info.attributes.role, <<"w", "i", "t", "h", " ", "r", "o", "l", "e">>)
       \o (IF info.text # <<>> THEN <<<<"c", "o", "n", "t", "a", "i", "n", "i", "n", "g", " ">> \o quoted(shown)>> ELSE <<>>))

\* the ElementInfo parseOutputString pushes for the node at an xpath
ElementInfo(xpath, type, attributes, text, x, y) ==
  [selector |-> xpath,
   description |-> generateDescription([type |-> type, attributes |-> attributes, text |-> text]),
   type |-> type,
   attributes |-> attributes,
   text |-> text,
   position |-> [x |-> x, y |-> y]]

\* the nodes of the pages the model analyzes
UserInput ==
  ElementInfo("//input[1]", <<"i", "n", "p", "u", "t">>, [NoAttributes EXCEPT !.type = <<"t", "e", "x", "t">>, !.name = <<"u", "s", "e", "r">>], <<>>, 0, 0)
PasswordInput ==
  ElementInfo("//input[2]", <<"i", "n", "p", "u", "t">>, [NoAttributes EXCEPT !.type = <<"p", "a", "s", "s", "w", "o", "r", "d">>, !.name = <<"p", "w", "d">>], <<>>, 0, 0)
FarPasswordInput ==
  ElementInfo("//input[3]", <<"i", "n", "p", "u", "t">>, [NoAttributes EXCEPT !.type = <<"t", "e", "x", "t">>, !.placeholder = <<"P", "a", "s", "s", "c", "o", "d", "e">>], <<>>, 0, 60)
LoginIdInput ==
  ElementInfo("//input[4]", <<"i", "n", "p", "u", "t">>, [NoAttributes EXCEPT !.type = <<"t", "e", "x", "t">>, !.id = <<"L", "o", "g", "i", "n">>], <<>>, 0, 0)
SubmitButton ==
  ElementInfo("//button[1]", <<"b", "u", "t", "t", "o", "n">>, [NoAttributes EXCEPT !.type = <<"s", "u", "b", "m", "i", "t">>], <<"L", "o", "g", " ", "i", "n">>, 3, 4)
FormElement ==
  ElementInfo("//form[1]", <<"f", "o", "r", "m">>, NoAttributes, <<>>, 0, 0)
SearchInput ==
  ElementInfo("//input[5]", <<"i", "n", "p", "u", "t">>, [NoAttributes EXCEPT !.type = <<"s", "e", "a", "r", "c", "h">>, !.name = <<"q">>], <<>>, 200, 0)
NamedSearchInput ==
  ElementInfo("//input[6]", <<"i", "n", "p", "u", "t">>, [NoAttributes EXCEPT !.type = <<"t", "e", "x", "t">>, !.name = <<"S", "e", "a", "r", "c", "h">>], <<>>, 200, 30)
SearchButton ==
  ElementInfo("//button[2]", <<"b", "u", "t", "t", "o", "n">>, NoAttributes, <<"S", "e", "a", "r", "c", "h">>, 210, 0)
IconButton ==
  ElementInfo("//button[3]", <<"b", "u", "t", "t", "o", "n">>, [NoAttributes EXCEPT !.class = <<"s", "e", "a", "r", "c", "h", "-", "i", "c", "o", "n">>], <<>>, 190, 0)
Anchor1 ==
  ElementInfo("//a[1]", <<"a">>, [NoAttributes EXCEPT !.href = <<"/", "a">>], <<"A">>, 0, 100)
Anchor2 ==
  ElementInfo("//a[2]", <<"a">>, [NoAttributes EXCEPT !.href = <<"/", "b">>], <<"B">>, 50, 105)
Anchor3 ==
  ElementInfo("//a[3]", <<"a">>, [NoAttributes EXCEPT !.href = <<"/", "c">>], <<"C">>, 100, 110)
Anchor4 ==
  ElementInfo("//a[4]", <<"a">>, [NoAttributes EXCEPT !.href = <<"/", "d">>], <<"D">>, 150, 115)
Anchor5 ==
  ElementInfo("//a[5]", <<"a">>, [NoAttributes EXCEPT !.href = <<"/", "e">>], <<"E">>, 200, 120)
BareAnchor ==
  ElementInfo("//a[6]", <<"a">>, [NoAttributes EXCEPT !.name = <<"t", "o", "p">>], <<"F">>, 250, 112)
NavElement ==
  ElementInfo("//nav[1]", <<"n", "a", "v">>, NoAttributes, <<>>, 0, 15)
MenuDiv ==
  ElementInfo("//div[1]", <<"d", "i", "v">>, [NoAttributes EXCEPT !.class = <<"M", "a", "i", "n", "-", "M", "e", "n", "u">>], <<>>, -800, 100)
NameInput ==
  ElementInfo("//input[7]", <<"i", "n", "p", "u", "t">>, [NoAttributes EXCEPT !.type = <<"t", "e", "x", "t">>, !.name = <<"f", "u", "l", "l", "N", "a", "m", "e">>], <<>>, 10, 20)
EmailInput ==
  ElementInfo("//input[8]", <<"i", "n", "p", "u", "t">>, [NoAttributes EXCEPT !.type = <<"e", "m", "a", "i", "l">>, !.placeholder = <<"E", "-", "m", "a", "i", "l">>], <<>>, 10, 40)
MessageArea ==
  ElementInfo("//textarea[1]", <<"t", "e", "x", "t", "a", "r", "e", "a">>, [NoAttributes EXCEPT !.name = <<"b", "o", "d", "y">>], <<>>, 10, 200)
SubjectInput ==
  ElementInfo("//input[9]", <<"i", "n", "p", "u", "t">>, [NoAttributes EXCEPT !.type = <<"t", "e", "x", "t">>, !.id = <<"S", "u", "b", "j", "e", "c", "t">>], <<>>, 1000, 500)
SignUpButton ==
  ElementInfo("//button[4]", <<"b", "u", "t", "t", "o", "n">>, NoAttributes, <<"S", "i", "g", "n", " ", "U", "p">>, 10, 300)
LowerForm ==
  ElementInfo("//form[2]", <<"f", "o", "r", "m">>, NoAttributes, <<>>, 0, 250)
SubmitInput ==
  ElementInfo("//input[10]", <<"i", "n", "p", "u", "t">>, [NoAttributes EXCEPT !.type = <<"s", "u", "b", "m", "i", "t">>], <<>>, 0, 501)

LoginElements == {UserInput, PasswordInput, FarPasswordInput, LoginIdInput, SubmitButton, FormElement}
SearchElements == {SearchInput, NamedSearchInput, SearchButton, IconButton, SubmitButton}
NavigationElements == {Anchor1, Anchor2, Anchor3, Anchor4, Anchor5, BareAnchor, NavElement, MenuDiv}

\* the element lists of at most MaxElements different nodes of one family
ElementLists(family) ==
  UNION {{s \in [1..n -> family] : \A i, j \in 1..n : i # j => s[i] # s[j]} : n \in 0..MaxElements}

\* a page with two forms, in document order
FormPage ==
  <<FormElement, NameInput, EmailInput, PasswordInput, MessageArea, SubjectInput,
    SignUpButton, LowerForm, SubmitInput>>

Reverse(s) == [i \in 1..Len(s) |-> s[Len(s) + 1 - i]]

\* the nodes of a page that processAllOfDom lists, in the order of the page
Listed(page, indices) ==
  LET l[i \in 0..Len(page)] ==
        IF i = 0 THEN <<>>
        ELSE IF i \in indices THEN Append(l[i - 1], page[i]) ELSE l[i - 1]
  IN l[Len(page)]

\* the element lists of the form page, of any length, in document order and
\* in the reverse order
FormLists ==
  {Listed(page, indices) : page \in {FormPage, Reverse(FormPage)},
                           indices \in SUBSET (1..Len(FormPage))}

PageUrl == "https://www.testdummy.ai/dashboard"

\* the CrawlResults crawlPage hands to an analyzer
CrawlResults ==
  {[url |-> PageUrl, elements |-> es] :
     es \in ElementLists(LoginElements) \cup ElementLists(SearchElements)
            \cup ElementLists(NavigationElements) \cup FormLists}

\* s.toLowerCase().includes(word)
lowerIncludes(s, word) == includes(toLowerCase(s), word)

abs(n) == IF n < 0 THEN -n ELSE n

\* ActionAnalyzer.calculateDistance; the model keeps the square of the
\* distance: two distances compare as their squares do
calculateDistance(p1, p2) == (p2.x - p1.x) * (p2.x - p1.x) + (p2.y - p1.y) * (p2.y - p1.y)

\* mutant of sortCompare: ties are broken by state outside the arguments
sortCompare_external(reference, a, b) ==
  IF calculateDistance(reference.position, a.position) = calculateDistance(reference.position, b.position)
  THEN (IF runs = 0 THEN 0 ELSE -1)
  ELSE calculateDistance(reference.position, a.position) - calculateDistance(reference.position, b.position)

\* the comparator of findNearbyElements: distA - distB
sortCompare(reference, a, b) ==
  calculateDistance(reference.position, a.position) - calculateDistance(reference.position, b.position)

\* Array.prototype.sort with the comparator of findNearbyElements: stable,
\* an element goes behind the elements it does not compare lower than
RECURSIVE sorted(_, _)
sorted(reference, candidates) ==
  IF candidates = <<>> THEN <<>>
  ELSE LET n == Len(candidates)
           last == candidates[n]
           front == sorted(reference, SubSeq(candidates, 1, n - 1))
           before == {i \in 1..(n - 1) : sortCompare(reference, last, front[i]) < 0}
           at == IF before = {} THEN n ELSE CHOOSE i \in before : \A j \in before : i <= j
       IN SubSeq(front, 1, at - 1) \o <<last>> \o SubSeq(front, at, n - 1)

\* mutant of findNearbyElements: only the candidates within 50px are kept
findNearbyElements_within(reference, candidates) ==
  sorted(reference,
         SelectSeq(candidates,
                   LAMBDA c : calculateDistance(reference.position, c.position) <= 50 * 50))

\* ActionAnalyzer.findNearbyElements: a sorted copy of the candidates
findNearbyElements(reference, candidates) == sorted(reference, candidates)

\* mutant of afterFilter: the filter removes the rejected elements in place
afterFilter_inPlace(array, kept) == kept

\* the array a filter was called on, after the call
afterFilter(array, kept) == array

\* Array.prototype.filter, kept being the elements that pass the test: the
\* new array returned, and the array filtered
filter(array, kept) == [kept |-> kept, array |-> afterFilter(array, kept)]

\* the concatenation of the sequences of a sequence
RECURSIVE flat(_)
flat(ss) == IF ss = <<>> THEN <<>> ELSE ss[1] \o flat(Tail(ss))

\* identifyLoginForms: potential username/email inputs
isUsernameInput(el) ==
  /\ el.type = <<"i", "n", "p", "u", "t">>
  /\ (el.attributes.type = <<"t", "e", "x", "t">> \/ el.attributes.type = <<"e", "m", "a", "i", "l">>)
  /\ \/ lowerIncludes(el.attributes.name, <<"u", "s", "e", "r">>)
     \/ lowerIncludes(el.attributes.name, <<"e", "m", "a", "i", "l">>)
     \/ lowerIncludes(el.attributes.name, <<"l", "o", "g", "i", "n">>)
     \/ lowerIncludes(el.attributes.id, <<"u", "s", "e", "r">>)
     \/ lowerIncludes(el.attributes.id, <<"e", "m", "a", "i", "l">>)
     \/ lowerIncludes(el.attributes.id, <<"l", "o", "g", "i", "n">>)
     \/ lowerIncludes(el.attributes.placeholder, <<"u", "s", "e", "r">>)
     \/ lowerIncludes(el.attributes.placeholder, <<"e", "m", "a", "i", "l">>)
     \/ lowerIncludes(el.description, <<"u", "s", "e", "r", "n", "a", "m", "e">>)
     \/ lowerIncludes(el.description, <<"e", "m", "a", "i", "l">>)

\* identifyLoginForms: potential password inputs
isPasswordInput(el) ==
  /\ el.type = <<"i", "n", "p", "u", "t">>
  /\ \/ el.attributes.type = <<"p", "a", "s", "s", "w", "o", "r", "d">>
     \/ lowerIncludes(el.attributes.name, <<"p", "a", "s", "s">>)
     \/ lowerIncludes(el.attributes.id, <<"p", "a", "s", "s">>)
     \/ lowerIncludes(el.attributes.placeholder, <<"p", "a", "s", "s">>)
     \/ lowerIncludes(el.description, <<"p", "a", "s", "s", "w", "o", "r", "d">>)

\* identifyLoginForms: potential submit buttons
isSubmitButton(el) ==
  /\ (el.type = <<"b", "u", "t", "t", "o", "n">> \/ el.type = <<"i", "n", "p", "u", "t">>)
  /\ \/ el.attributes.type = <<"s", "u", "b", "m", "i", "t">>
     \/ lowerIncludes(el.text, <<"l", "o", "g", " ", "i", "n">>)
     \/ lowerIncludes(el.text, <<"l", "o", "g", "i", "n">>)
     \/ lowerIncludes(el.text, <<"s", "i", "g", "n", " ", "i", "n">>)
     \/ lowerIncludes(el.text, <<"s", "i", "g", "n", "i", "n">>)
     \/ lowerIncludes(el.description, <<"l", "o", "g", "i", "n">>)
     \/ lowerIncludes(el.description, <<"s", "i", "g", "n", " ", "i", "n">>)

\* a UserAction
UserAction(type, name, description, elements, url, confidence) ==
  [type |-> type, name |-> name, description |-> description, elements |-> elements,
   url |-> url, confidence |-> confidence]

\* mutant of loginFormOf: the first password input is taken, not the nearest
loginFormOf_first(usernameInput, passwordInputs, submitButtons, url) ==
  IF Len(passwordInputs) > 0
  THEN IF Len(submitButtons) > 0
       THEN <<UserAction("login", "Login",
                <<"Login form with username/email and password fields">>,
                <<usernameInput, passwordInputs[1], submitButtons[1]>>, url, 90)>>
       ELSE <<UserAction("login", "Login",
                <<"Partial login form with username/email and password fields">>,
                <<usernameInput, passwordInputs[1]>>, url, 70)>>
  ELSE <<>>

\* the body of `for (const usernameInput of usernameInputs)`
loginFormOf(usernameInput, passwordInputs, submitButtons, url) ==
  LET nearbyPasswordInputs == findNearbyElements(usernameInput, passwordInputs)
  IN IF Len(nearbyPasswordInputs) > 0
     THEN LET nearbySubmitButtons == findNearbyElements(nearbyPasswordInputs[1], submitButtons)
          IN IF Len(nearbySubmitButtons) > 0
             THEN <<UserAction("login", "Login",
                      <<"Login form with username/email and password fields">>,
                      <<usernameInput, nearbyPasswordInputs[1], nearbySubmitButtons[1]>>,
                      url, 90)>>
             ELSE <<UserAction("login", "Login",
                      <<"Partial login form with username/email and password fields">>,
                      <<usernameInput, nearbyPasswordInputs[1]>>,
                      url, 70)>>
     ELSE <<>>

\* identifyLoginForms: usernameInputs.length > 0 && passwordInputs.length > 0
loginGuard(usernameInputs, passwordInputs) ==
  Len(usernameInputs) > 0 /\ Len(passwordInputs) > 0

\* ActionAnalyzer.identifyLoginForms; elements: the input array after the call
identifyLoginForms(cr) ==
  LET usernameInputs == filter(cr.elements, SelectSeq(cr.elements, isUsernameInput))
      passwordInputs == filter(usernameInputs.array, SelectSeq(usernameInputs.array, isPasswordInput))
      submitButtons == filter(passwordInputs.array, SelectSeq(passwordInputs.array, isSubmitButton))
  IN [actions |->
        IF loginGuard(usernameInputs.kept, passwordInputs.kept)
        THEN flat([i \in 1..Len(usernameInputs.kept) |->
                     loginFormOf(usernameInputs.kept[i], passwordInputs.kept,
                                 submitButtons.kept, cr.url)])
        ELSE <<>>,
      elements |-> submitButtons.array]

\* identifySearchInterfaces: potential search inputs
isSearchInput(el) ==
  /\ el.type = <<"i", "n", "p", "u", "t">>
  /\ \/ el.attributes.type = <<"s", "e", "a", "r", "c", "h">>
     \/ lowerIncludes(el.attributes.name, <<"s", "e", "a", "r", "c", "h">>)
     \/ lowerIncludes(el.attributes.id, <<"s", "e", "a", "r", "c", "h">>)
     \/ lowerIncludes(el.attributes.placeholder, <<"s", "e", "a", "r", "c", "h">>)
     \/ lowerIncludes(el.description, <<"s", "e", "a", "r", "c", "h">>)

\* identifySearchInterfaces: potential search buttons
isSearchButton(el) ==
  /\ (el.type = <<"b", "u", "t", "t", "o", "n">> \/ el.type = <<"i", "n", "p", "u", "t">>)
  /\ \/ el.attributes.type = <<"s", "u", "b", "m", "i", "t">>
     \/ lowerIncludes(el.text, <<"s", "e", "a", "r", "c", "h">>)
     \/ lowerIncludes(el.description, <<"s", "e", "a", "r", "c", "h">>)
     \/ lowerIncludes(el.attributes.class, <<"s", "e", "a", "r", "c", "h">>)

\* mutant of searchInterfaceOf: the first button in element order is taken
searchInterfaceOf_first(searchInput, searchButtons, url) ==
  IF Len(searchButtons) > 0
  THEN UserAction("search", "Search", <<"Search interface with input field and search button">>,
                  <<searchInput, searchButtons[1]>>, url, 90)
  ELSE UserAction("search", "Search", <<"Search input field">>, <<searchInput>>, url, 70)

\* the body of `for (const searchInput of searchInputs)`
searchInterfaceOf(searchInput, searchButtons, url) ==
  LET nearbySearchButtons == findNearbyElements(searchInput, searchButtons)
  IN IF Len(nearbySearchButtons) > 0
     THEN UserAction("search", "Search", <<"Search interface with input field and search button">>,
                     <<searchInput, nearbySearchButtons[1]>>, url, 90)
     ELSE UserAction("search", "Search", <<"Search input field">>, <<searchInput>>, url, 70)

\* ActionAnalyzer.identifySearchInterfaces
identifySearchInterfaces(cr) ==
  LET searchInputs == filter(cr.elements, SelectSeq(cr.elements, isSearchInput))
      searchButtons == filter(searchInputs.array, SelectSeq(searchInputs.array, isSearchButton))
  IN [actions |->
        [i \in 1..Len(searchInputs.kept) |->
           searchInterfaceOf(searchInputs.kept[i], searchButtons.kept, cr.url)],
      elements |-> searchButtons.array]

\* identifyNavigationMenus: potential navigation elements
isNavElement(el) ==
  \/ el.type = <<"n", "a", "v">>
  \/ el.attributes.role = <<"n", "a", "v", "i", "g", "a", "t", "i", "o", "n">>
  \/ lowerIncludes(el.attributes.class, <<"n", "a", "v">>)
  \/ lowerIncludes(el.attributes.id, <<"n", "a", "v">>)
  \/ lowerIncludes(el.attributes.class, <<"m", "e", "n", "u">>)
  \/ lowerIncludes(el.attributes.id, <<"m", "e", "n", "u">>)

\* identifyNavigationMenus: all links
isLink(el) == el.type = <<"a">> /\ el.attributes.href # <<>>

\* mutant of insideNav: the edges of the box are outside
insideNav_open(link, navElement) ==
  /\ link.position.y > navElement.position.y
  /\ link.position.y < navElement.position.y + 100
  /\ link.position.x > navElement.position.x
  /\ link.position.x < navElement.position.x + 1000

\* identifyNavigationMenus: the link is likely inside the nav element
insideNav(link, navElement) ==
  /\ link.position.y >= navElement.position.y
  /\ link.position.y <= navElement.position.y + 100
  /\ link.position.x >= navElement.position.x
  /\ link.position.x <= navElement.position.x + 1000

\* the body of `for (const navElement of navElements)`
navigationMenuOf(navElement, links, url) ==
  LET navLinks == SelectSeq(links, LAMBDA link : insideNav(link, navElement))
  IN IF Len(navLinks) >= 3
     THEN <<UserAction("navigation", "Navigation Menu",
               <<"Navigation menu with", Len(navLinks), "links">>,
               <<navElement>> \o navLinks, url, 80)>>
     ELSE <<>>

\* mutant of sameRow: the threshold is 15px
sameRow_narrow(link, firstLink) == abs(link.position.y - firstLink.position.y) < 15

\* identifyNavigationMenus: Math.abs(link.position.y - firstLink.position.y) < 20
sameRow(link, firstLink) == abs(link.position.y - firstLink.position.y) < 20

\* the body of `for (const link of links)`: the link joins the first group
\* whose first link is on its row, or starts a group
addToGroups(linkGroups, link) ==
  LET rows == {g \in 1..Len(linkGroups) : sameRow(link, linkGroups[g][1])}
  IN IF rows = {}
     THEN Append(linkGroups, <<link>>)
     ELSE LET g == CHOOSE r \in rows : \A q \in rows : r <= q
          IN [linkGroups EXCEPT ![g] = Append(@, link)]

\* identifyNavigationMenus: the groups of the links, in element order
RECURSIVE groupLinks(_)
groupLinks(links) ==
  IF links = <<>> THEN <<>>
  ELSE addToGroups(groupLinks(SubSeq(links, 1, Len(links) - 1)), links[Len(links)])

\* identifyNavigationMenus: group.length >= 3
isMenuGroup(group) == Len(group) >= 3

\* identifyNavigationMenus: the actions of the groups of links
linkGroupMenus(links, url) ==
  LET linkGroups == groupLinks(links)
      menus == SelectSeq(linkGroups, isMenuGroup)
  IN [i \in 1..Len(menus) |->
        UserAction("navigation", "Navigation Menu",
                   <<"Horizontal navigation menu with", Len(menus[i]), "links">>,
                   menus[i], url, 70)]

\* ActionAnalyzer.identifyNavigationMenus
identifyNavigationMenus(cr) ==
  LET navElements == filter(cr.elements, SelectSeq(cr.elements, isNavElement))
      links == filter(navElements.array, SelectSeq(navElements.array, isLink))
      contained == flat([i \in 1..Len(navElements.kept) |->
                           navigationMenuOf(navElements.kept[i], links.kept, cr.url)])
  IN [actions |-> IF Len(contained) = 0 THEN linkGroupMenus(links.kept, cr.url) ELSE contained,
      elements |-> links.array]

\* identifyForms: all input elements
isInputElement(el) ==
  el.type = <<"i", "n", "p", "u", "t">> \/ el.type = <<"t", "e", "x", "t", "a", "r", "e", "a">> \/ el.type = <<"s", "e", "l", "e", "c", "t">>

\* mutant of isFormSubmitButton: the text of the button is not looked at
isFormSubmitButton_typeOnly(el) ==
  /\ (el.type = <<"b", "u", "t", "t", "o", "n">> \/ el.type = <<"i", "n", "p", "u", "t">>)
  /\ el.attributes.type = <<"s", "u", "b", "m", "i", "t">>

\* identifyForms: submit buttons
isFormSubmitButton(el) ==
  /\ (el.type = <<"b", "u", "t", "t", "o", "n">> \/ el.type = <<"i", "n", "p", "u", "t">>)
  /\ \/ el.attributes.type = <<"s", "u", "b", "m", "i", "t">>
     \/ lowerIncludes(el.text, <<"s", "u", "b", "m", "i", "t">>)
     \/ lowerIncludes(el.text, <<"s", "e", "n", "d">>)
     \/ lowerIncludes(el.text, <<"r", "e", "g", "i", "s", "t", "e", "r">>)
     \/ lowerIncludes(el.text, <<"s", "i", "g", "n", " ", "u", "p">>)

\* identifyForms: the element is likely inside the form element
insideForm(el, formElement) ==
  /\ el.position.y >= formElement.position.y
  /\ el.position.y <= formElement.position.y + 500
  /\ el.position.x >= formElement.position.x
  /\ el.position.x <= formElement.position.x + 1000

\* identifyForms: a field of the form has the word in its name, id or placeholder
hasField(formInputs, word) ==
  \E i \in 1..Len(formInputs) :
    \/ lowerIncludes(formInputs[i].attributes.name, word)
    \/ lowerIncludes(formInputs[i].attributes.id, word)
    \/ lowerIncludes(formInputs[i].attributes.placeholder, word)

\* identifyForms: the five flags of the input fields of a form
formFlags(formInputs) ==
  [hasNameField |-> hasField(formInputs, <<"n", "a", "m", "e">>),
   hasEmailField |->
     \/ \E i \in 1..Len(formInputs) : formInputs[i].attributes.type = <<"e", "m", "a", "i", "l">>
     \/ hasField(formInputs, <<"e", "m", "a", "i", "l">>),
   hasPasswordField |->
     \/ \E i \in 1..Len(formInputs) : formInputs[i].attributes.type = <<"p", "a", "s", "s", "w", "o", "r", "d">>
     \/ hasField(formInputs, <<"p", "a", "s", "s", "w", "o", "r", "d">>),
   hasMessageField |->
     \/ \E i \in 1..Len(formInputs) : formInputs[i].type = <<"t", "e", "x", "t", "a", "r", "e", "a">>
     \/ hasField(formInputs, <<"m", "e", "s", "s", "a", "g", "e">>),
   hasSubjectField |-> hasField(formInputs, <<"s", "u", "b", "j", "e", "c", "t">>)]

\* mutant of formTypeOf: the contact signatures are tested first
formTypeOf_contactFirst(flags) ==
  IF flags.hasNameField /\ flags.hasEmailField /\ flags.hasMessageField
  THEN [formType |-> "contact", formName |-> "Contact Form", confidence |-> 90]
  ELSE IF flags.hasEmailField /\ flags.hasSubjectField /\ flags.hasMessageField
  THEN [formType |-> "contact", formName |-> "Contact Form", confidence |-> 90]
  ELSE IF flags.hasNameField /\ flags.hasEmailField /\ flags.hasPasswordField
  THEN [formType |-> "registration", formName |-> "Registration Form", confidence |-> 90]
  ELSE [formType |-> "form", formName |-> "Form", confidence |-> 70]

\* identifyForms: determine form type
formTypeOf(flags) ==
  IF flags.hasNameField /\ flags.hasEmailField /\ flags.hasPasswordField
  THEN [formType |-> "registration", formName |-> "Registration Form", confidence |-> 90]
  ELSE IF flags.hasNameField /\ flags.hasEmailField /\ flags.hasMessageField
  THEN [formType |-> "contact", formName |-> "Contact Form", confidence |-> 90]
  ELSE IF flags.hasEmailField /\ flags.hasSubjectField /\ flags.hasMessageField
  THEN [formType |-> "contact", formName |-> "Contact Form", confidence |-> 90]
  ELSE [formType |-> "form", formName |-> "Form", confidence |-> 70]

\* identifyForms: formType, formName and confidence of a form
formKind(formInputs) == formTypeOf(formFlags(formInputs))

\* mutant of formGuard: one input field is enough
formGuard_oneInput(formInputs, formSubmitButtons) ==
  Len(formInputs) >= 1 /\ Len(formSubmitButtons) > 0

\* identifyForms: formInputs.length >= 2 && formSubmitButtons.length > 0
formGuard(formInputs, formSubmitButtons) ==
  Len(formInputs) >= 2 /\ Len(formSubmitButtons) > 0

\* the body of `for (const formElement of formElements)`
formOf(formElement, inputElements, submitButtons, url) ==
  LET formInputs == SelectSeq(inputElements, LAMBDA input : insideForm(input, formElement))
      formSubmitButtons == SelectSeq(submitButtons, LAMBDA button : insideForm(button, formElement))
  IN IF formGuard(formInputs, formSubmitButtons)
     THEN LET kind == formKind(formInputs)
          IN <<UserAction(kind.formType, kind.formName,
                  <<kind.formName, "with", Len(formInputs), "input fields">>,
                  <<formElement>> \o formInputs \o formSubmitButtons, url, kind.confidence)>>
     ELSE <<>>

\* ActionAnalyzer.identifyForms
identifyForms(cr) ==
  LET formElements == filter(cr.elements, SelectSeq(cr.elements, LAMBDA el : el.type = <<"f", "o", "r", "m">>))
      inputElements == filter(formElements.array, SelectSeq(formElements.array, isInputElement))
      submitButtons == filter(inputElements.array, SelectSeq(inputElements.array, isFormSubmitButton))
  IN [actions |->
        flat([i \in 1..Len(formElements.kept) |->
                formOf(formElements.kept[i], inputElements.kept, submitButtons.kept, cr.url)]),
      elements |-> submitButtons.array]

\* mutant of actionUrl: the actions carry no url
actionUrl_missing(cr) == ""

\* the url the detectors give their actions: const { elements, url } = crawlResult
actionUrl(cr) == cr.url

\* mutant of analyzeActions: the form detector runs first and an action whose
\* elements are all in an earlier action is dropped
analyzeActions_merged(cr) ==
  LET all == identifyForms(cr).actions \o identifyLoginForms(cr).actions
               \o identifySearchInterfaces(cr).actions \o identifyNavigationMenus(cr).actions
      covered(i) == \E j \in 1..(i - 1) :
                      \A k \in 1..Len(all[i].elements) :
                        \E m \in 1..Len(all[j].elements) : all[j].elements[m] = all[i].elements[k]
      keep == {i \in 1..Len(all) : ~covered(i)}
      RECURSIVE pick(_)
      pick(i) == IF i = 0 THEN <<>>
                 ELSE IF i \in keep THEN Append(pick(i - 1), all[i]) ELSE pick(i - 1)
  IN [actions |-> pick(Len(all)), crawlResult |-> cr]

\* ActionAnalyzer.analyzeActions: the actions returned, and the CrawlResult
\* after the call
analyzeActions(cr) ==
  LET at(elements) == [url |-> actionUrl(cr), elements |-> elements]
      loginActions == identifyLoginForms(at(cr.elements))
      searchActions == identifySearchInterfaces(at(loginActions.elements))
      navigationActions == identifyNavigationMenus(at(searchActions.elements))
      formActions == identifyForms(at(navigationActions.elements))
  IN [actions |-> loginActions.actions \o searchActions.actions
                    \o navigationActions.actions \o formActions.actions,
      crawlResult |-> [cr EXCEPT !.elements = formActions.elements]]

\* the completion call threw, for the network or for a completion that does
\* not fit the schema
Failed == [threw |-> TRUE, actions |-> <<>>]

\* a completion that fits actionSchema
Completion(acts) == [threw |-> FALSE, actions |-> acts]

\* an entry of the actions of a completion
LLMAction(type, elementIndices, confidence) ==
  [type |-> type, name |-> type, description |-> <<type>>,
   elementIndices |-> elementIndices, confidence |-> confidence]

\* what llmClient.createChatCompletion does in the runs of the model
Completions ==
  {Failed,
   Completion(<<>>),
   Completion(<<LLMAction("login", <<0>>, 80)>>),
   Completion(<<LLMAction("login", <<1, 0>>, 100)>>),
   Completion(<<LLMAction("search", <<>>, 50)>>),
   Completion(<<LLMAction("form", <<0, 7>>, 0), LLMAction("navigation", <<7, -1>>, 60)>>)}

\* crawlResult.elements[index]: arrays are indexed from 0
elementAt(elements, index) ==
  IF index \in 0..(Len(elements) - 1) THEN <<elements[index + 1]>> ELSE <<>>

\* action.elementIndices.map(index => crawlResult.elements[index]).filter(Boolean)
actionElements(elements, elementIndices) ==
  flat([i \in 1..Len(elementIndices) |-> elementAt(elements, elementIndices[i])])

\* mutant of llmCatch: the catch block rethrows
llmCatch_rethrow == [threw |-> TRUE, actions |-> <<>>]

\* the catch block of LLMActionAnalyzer.analyzeActions: return []
llmCatch == [threw |-> FALSE, actions |-> <<>>]

\* LLMActionAnalyzer.analyzeActions: what it returns, or that it threw
llmAnalyzeActions(cr, response) ==
  IF response.threw
  THEN llmCatch
  ELSE [threw |-> FALSE,
        actions |->
          [i \in 1..Len(response.actions) |->
             UserAction(response.actions[i].type, response.actions[i].name,
                        response.actions[i].description,
                        actionElements(cr.elements, response.actions[i].elementIndices),
                        cr.url, response.actions[i].confidence)]]

\* the elements crawlPage finds on the pages of the run
CrawledElements == <<UserInput, PasswordInput, SubmitButton>>

VARIABLES
  urlQueue,      \* const urlQueue: string[]
  crawledUrls,   \* const crawledUrls = new Set<string>()
  pc,            \* position of main in the loop
  url,           \* const url of the current turn
  links,         \* number of hrefs of the current page not yet handled
  llmEnabled,    \* process.env.OPENAI_API_KEY is set
  dequeued,      \* history: every urlQueue.shift(), with the guard's view
  processed,     \* history: the URLs that entered the try block, in order
  accepted,      \* history: the seed and every urlQueue.push, in order
  offer,         \* history: the link the for loop handled last, and what it met
  lastError,        \* history: the URL of the last error the per-URL catch logged
  fetches,       \* history: crawlPage calls for the current url
  stored         \* history: the batches of actions of the current url stored
                 \* by the try block, until its links are read or it is left

hist == <<dequeued, processed, accepted, offer, lastError, fetches, stored>>
crawlVars == <<urlQueue, crawledUrls, pc, url, links, llmEnabled,
               dequeued, processed, accepted, offer, lastError, fetches, stored>>
vars == <<crawlVars, analyzerVars>>

NoOffer == [link |-> <<>>, before |-> <<>>, crawled |-> {}, outcome |-> "none"]

Init ==
  /\ urlQueue = <<startUrl>>
  /\ crawledUrls = {}
  /\ pc = "loop"
  /\ url = <<>>
  /\ links = 0
  /\ llmEnabled \in BOOLEAN
  /\ dequeued = <<>>
  /\ processed = <<>>
  /\ accepted = <<startUrl>>
  /\ offer = NoOffer
  /\ lastError = <<>>
  /\ fetches = 0
  /\ stored = {}
  /\ crawlResult = [url |-> startUrl, elements |-> CrawledElements]
  /\ passed = crawlResult
  /\ runs = 0
  /\ actions = <<>>
  /\ previous = <<>>
  /\ llm = "idle"
  /\ completion = Failed
  /\ llmActions = <<>>

\* the per-URL catch (part_000:327-339): log, then the next turn of the loop
Caught(stage) ==
  /\ pc' = afterUrlError
  /\ lastError' = url
  /\ UNCHANGED <<urlQueue, crawledUrls, url, links, llmEnabled>>
  /\ stored' = {}
  /\ llm' = "idle" /\ completion' = Failed /\ llmActions' = <<>>
  /\ UNCHANGED <<dequeued, processed, accepted, offer, fetches>>
  /\ UNCHANGED <<crawlResult, passed, runs, actions, previous>>

\* a turn of the while loop begins: guard, shift, skip or mark as crawled
Dequeue ==
  /\ pc = "loop"
  /\ loopGuard(urlQueue, crawledUrls)
  /\ LET s == shift(urlQueue)
     IN /\ url' = s.url
        /\ urlQueue' = s.rest
        /\ dequeued' = Append(dequeued,
               [url |-> s.url, visited |-> Cardinality(crawledUrls), queued |-> Len(urlQueue)])
        /\ IF s.url \in crawledUrls
           THEN /\ pc' = "loop"
                /\ UNCHANGED <<crawledUrls, processed>>
           ELSE /\ pc' = "crawlRule"
                /\ crawledUrls' = markCrawled(crawledUrls, s.url)
                /\ processed' = Append(processed, s.url)
  /\ fetches' = 0
  /\ stored' = {}
  /\ llm' = "idle" /\ completion' = Failed /\ llmActions' = <<>>
  /\ UNCHANGED <<links, llmEnabled, accepted, offer, lastError>>
  /\ UNCHANGED <<crawlResult, passed, runs, actions, previous>>

\* the guard of the while loop is false: the loop ends
LoopExit ==
  /\ pc = "loop"
  /\ ~loopGuard(urlQueue, crawledUrls)
  /\ pc' = "done"
  /\ UNCHANGED <<urlQueue, crawledUrls, url, links, llmEnabled>>
  /\ UNCHANGED hist
  /\ UNCHANGED analyzerVars

\* crawlUrl(stagehand, url, {useLLM: false}) returns; found: it has actions
CrawlRuleOk(found) ==
  /\ pc = "crawlRule"
  /\ pc' = IF found THEN "storeRule" ELSE afterRuleBased(llmEnabled)
  /\ fetches' = fetches + 1
  /\ UNCHANGED <<urlQueue, crawledUrls, url, links, llmEnabled>>
  /\ UNCHANGED <<dequeued, processed, accepted, offer, lastError, stored>>
  /\ UNCHANGED analyzerVars

\* crawlUrl throws (page.goto, page.evaluate): the per-URL catch
CrawlRuleFail ==
  /\ pc = "crawlRule"
  /\ Caught("crawlRule")

\* storage.storeActions(ruleBasedActions) returns
StoreRuleOk ==
  /\ pc = "storeRule"
  /\ pc' = afterRuleBased(llmEnabled)
  /\ UNCHANGED <<urlQueue, crawledUrls, url, links, llmEnabled>>
  /\ stored' = stored \cup {"rule"}
  /\ UNCHANGED <<dequeued, processed, accepted, offer, lastError, fetches>>
  /\ UNCHANGED analyzerVars

\* storage.storeActions rethrows the database error: the per-URL catch
StoreRuleFail ==
  /\ pc = "storeRule"
  /\ Caught("storeRule")

\* crawlUrl(stagehand, url, {useLLM: true}): crawlPage returns and the LLM
\* analyzer runs, the completion call doing what response says
CrawlLLMOk(response) ==
  /\ pc = "crawlLLM"
  /\ \E r \in {llmAnalyzeActions([url |-> url, elements |-> CrawledElements], response)} :
        /\ llm' = IF r.threw THEN "threw" ELSE "returned"
        /\ llmActions' = r.actions
        /\ pc' = IF r.threw THEN afterUrlError
                 ELSE IF Len(r.actions) > 0 THEN "storeLLM" ELSE "extract"
        /\ lastError' = IF r.threw THEN url ELSE lastError
  /\ completion' = response
  /\ fetches' = fetches + 1
  /\ UNCHANGED <<urlQueue, crawledUrls, url, links, llmEnabled>>
  /\ UNCHANGED <<dequeued, processed, accepted, offer, stored>>
  /\ UNCHANGED <<crawlResult, passed, runs, actions, previous>>

\* the second crawlPage throws: the per-URL catch
CrawlLLMFail ==
  /\ pc = "crawlLLM"
  /\ Caught("crawlLLM")

\* storage.storeActions(llmActions) returns
StoreLLMOk ==
  /\ pc = "storeLLM"
  /\ pc' = "extract"
  /\ UNCHANGED <<urlQueue, crawledUrls, url, links, llmEnabled>>
  /\ stored' = stored \cup {"llm"}
  /\ UNCHANGED <<dequeued, processed, accepted, offer, lastError, fetches>>
  /\ UNCHANGED analyzerVars

\* storage.storeActions(llmActions) throws: the per-URL catch
StoreLLMFail ==
  /\ pc = "storeLLM"
  /\ Caught("storeLLM")

\* stagehand.page.evaluate returns the hrefs of the page, n of them
ExtractLinks(n) ==
  /\ pc = "extract"
  /\ pc' = "links"
  /\ links' = n
  /\ UNCHANGED <<urlQueue, crawledUrls, url, llmEnabled>>
  /\ llm' = "idle" /\ completion' = Failed /\ llmActions' = <<>>
  /\ stored' = {}
  /\ UNCHANGED <<dequeued, processed, accepted, offer, lastError, fetches>>
  /\ UNCHANGED <<crawlResult, passed, runs, actions, previous>>

\* stagehand.page.evaluate throws: the per-URL catch
ExtractFail ==
  /\ pc = "extract"
  /\ Caught("extract")

\* one turn of `for (const link of links)`, link being the next href
ProcessLink(link) ==
  /\ pc = "links"
  /\ links > 0
  /\ \E r \in {processLink(link, url, urlQueue, crawledUrls)} :
        /\ Len(r.absoluteUrl) <= MaxUrlLen
        /\ urlQueue' = r.queue
        /\ accepted' = IF r.outcome = "pushed" THEN Append(accepted, r.queue[Len(r.queue)]) ELSE accepted
        /\ offer' = [link |-> link, before |-> urlQueue, crawled |-> crawledUrls,
                outcome |-> r.outcome]
  /\ links' = links - 1
  /\ pc' = "links"
  /\ UNCHANGED <<crawledUrls, url, llmEnabled>>
  /\ UNCHANGED <<dequeued, processed, lastError, fetches, stored>>
  /\ UNCHANGED analyzerVars

\* the for loop is over: the delay between crawls begins
LinksDone ==
  /\ pc = "links"
  /\ links = 0
  /\ pc' = "delay"
  /\ offer' = NoOffer
  /\ UNCHANGED <<urlQueue, crawledUrls, url, links, llmEnabled>>
  /\ UNCHANGED <<dequeued, processed, accepted, lastError, fetches, stored>>
  /\ UNCHANGED analyzerVars

\* the setTimeout promise resolves: next turn of the while loop
Delay ==
  /\ pc = "delay"
  /\ pc' = "loop"
  /\ UNCHANGED <<urlQueue, crawledUrls, url, links, llmEnabled>>
  /\ UNCHANGED hist
  /\ UNCHANGED analyzerVars

Next ==
  \/ Dequeue
  \/ LoopExit
  \/ \E found \in BOOLEAN : CrawlRuleOk(found)
  \/ CrawlRuleFail
  \/ StoreRuleOk
  \/ StoreRuleFail
  \/ \E response \in Completions : CrawlLLMOk(response)
  \/ CrawlLLMFail
  \/ StoreLLMOk
  \/ StoreLLMFail
  \/ \E n \in 0..MaxLinks : ExtractLinks(n)
  \/ ExtractFail
  \/ \E link \in LinkUniverse : ProcessLink(link)
  \/ LinksDone
  \/ Delay

Spec == Init /\ [][Next]_vars

(***************************************************************************)
(* The analyzers on their own: crawlUrl hands one CrawlResult to the       *)
(* rule-based analyzer (here called again on the same CrawlResult, for the *)
(* claims about repeated calls) or to the LLM analyzer.                    *)
(***************************************************************************)
AnalyzerInit ==
  /\ urlQueue = <<startUrl>>
  /\ crawledUrls = {}
  /\ pc = "loop"
  /\ url = <<>>
  /\ links = 0
  /\ llmEnabled = FALSE
  /\ dequeued = <<>>
  /\ processed = <<>>
  /\ accepted = <<startUrl>>
  /\ offer = NoOffer
  /\ lastError = <<>>
  /\ fetches = 0
  /\ stored = {}
  /\ crawlResult \in CrawlResults
  /\ passed = crawlResult
  /\ runs = 0
  /\ actions = <<>>
  /\ previous = <<>>
  /\ llm = "idle"
  /\ completion = Failed
  /\ llmActions = <<>>

\* analyzer.analyzeActions(crawlResult) (index.ts:52-53)
AnalyzeActions ==
  /\ llm = "idle"
  /\ runs < MaxRuns
  /\ \E r \in {analyzeActions(crawlResult)} :
        /\ actions' = r.actions
        /\ crawlResult' = r.crawlResult
  /\ previous' = actions
  /\ runs' = runs + 1
  /\ UNCHANGED <<passed, llm, completion, llmActions>>
  /\ UNCHANGED crawlVars

\* llmAnalyzer.analyzeActions(crawlResult) (index.ts:48-49), the completion
\* call doing what response says
LLMAnalyzeActions(response) ==
  /\ llm = "idle"
  /\ runs = 0
  /\ \E r \in {llmAnalyzeActions(crawlResult, response)} :
        /\ llm' = IF r.threw THEN "threw" ELSE "returned"
        /\ llmActions' = r.actions
  /\ completion' = response
  /\ UNCHANGED <<crawlResult, passed, runs, actions, previous>>
  /\ UNCHANGED crawlVars

AnalyzerNext ==
  \/ AnalyzeActions
  \/ \E response \in Completions : LLMAnalyzeActions(response)

AnalyzerSpec == AnalyzerInit /\ [][AnalyzerNext]_vars


(***************************************************************************)
(* Properties.                                                             *)
(***************************************************************************)
Range(q) == {q[i] : i \in 1..Len(q)}
NoDup(q) == \A i, j \in 1..Len(q) : i # j => q[i] # q[j]
Count(q, x) == Cardinality({i \in 1..Len(q) : q[i] = x})
Offered == offer.outcome # "none"

\* the link handled last, resolved against the page it was found on
OfferResolved == resolve(offer.link, parseAbsolute(url))

\* the normalized form of the link handled last
OfferClean == cleanUrlOf(parseAbsolute(href(OfferResolved)))

\* C1: the queue never holds a URL string twice, and a link whose normalized
\* form is already queued leaves the queue as it was, with that URL in it once
C1_QueueHasNoDuplicates ==
  /\ NoDup(urlQueue)
  /\ (Offered /\ OfferResolved.ok /\ OfferClean \in Range(offer.before))
       => (urlQueue = offer.before /\ Count(urlQueue, OfferClean) = 1)

\* a link was offered whose normalized form was already queued
C1_Witness ==
  Offered /\ OfferResolved.ok /\ OfferClean \in Range(offer.before)

\* C2: at most maxUrlsToCrawl distinct URLs are dequeued, and every dequeue
\* found a non-empty queue and fewer than maxUrlsToCrawl crawled URLs
C2_BudgetRespected ==
  /\ Cardinality({dequeued[i].url : i \in 1..Len(dequeued)}) <= maxUrlsToCrawl
  /\ Cardinality(crawledUrls) <= maxUrlsToCrawl
  /\ \A i \in 1..Len(dequeued) :
        dequeued[i].visited < maxUrlsToCrawl /\ dequeued[i].queued > 0

\* the run ended on the budget, with URLs still queued
C2_Witness ==
  pc = "done" /\ Cardinality(crawledUrls) = maxUrlsToCrawl /\ urlQueue # <<>>
  /\ Len(dequeued) = maxUrlsToCrawl

\* C3: no URL enters the try block twice, the queue and the crawled set are
\* disjoint, and a link that normalizes to a crawled URL leaves the queue as
\* it was
C3_ProcessedOnce ==
  /\ NoDup(processed)
  /\ Range(urlQueue) \cap crawledUrls = {}
  /\ \A i \in 1..Len(dequeued) : dequeued[i].url \notin {dequeued[j].url : j \in 1..(i - 1)}
  /\ (Offered /\ OfferResolved.ok /\ OfferClean \in offer.crawled)
       => urlQueue = offer.before

\* a link was offered that normalizes to a URL crawled before
C3_Witness ==
  Offered /\ OfferResolved.ok /\ OfferClean \in offer.crawled
  /\ Len(processed) >= 2

\* C4: a link whose resolved hostname is not the start URL's leaves the queue
\* and the crawled set as they were, and every queued or crawled URL has the
\* start URL's hostname
C4_SameHostOnly ==
  /\ (Offered /\ OfferResolved.ok /\ OfferResolved.hostname # parseAbsolute(startUrl).hostname)
       => (urlQueue = offer.before /\ crawledUrls = offer.crawled)
  /\ \A u \in Range(urlQueue) \cup crawledUrls :
        parseAbsolute(u).hostname = parseAbsolute(startUrl).hostname

\* a link to another host was offered while URLs were queued
C4_Witness ==
  Offered /\ OfferResolved.ok /\ OfferResolved.hostname # parseAbsolute(startUrl).hostname
  /\ urlQueue # <<>>

\* the words of the excluded-path predicate
SessionWords ==
  {<<"l", "o", "g", "i", "n">>, <<"l", "o", "g", "o", "u", "t">>,
   <<"s", "i", "g", "n", "i", "n">>, <<"s", "i", "g", "n", "o", "u", "t">>}

\* the path of u holds one of the words, letter case ignored
HasSessionPath(u) ==
  \E w \in SessionWords : includes(toLowerCase(parseAbsolute(u).pathname), w)

\* C5: no URL enqueued from a discovered link has a path that holds login,
\* logout, signin or signout in any letter case
C5_NoSessionPathEnqueued ==
  \A i \in 2..Len(accepted) : ~HasSessionPath(accepted[i])

\* the normalized form of href l found on the page at u
Normalized(l, u) == cleanUrlOf(parseAbsolute(href(resolve(l, parseAbsolute(u)))))

\* C6: the normalized form of a link has the protocol, hostname and pathname
\* of the resolved link and neither query nor fragment; two links of a page
\* have the same normalized form exactly when they resolve to the same
\* protocol, hostname and pathname; a normalized URL normalizes to itself;
\* /login?x=1#y normalizes to /login of the page's origin and is rejected
C6_Normalization ==
  /\ Offered /\ OfferResolved.ok =>
       LET n == parseAbsolute(OfferClean)
       IN /\ n.ok /\ n.search = <<>> /\ n.hash = <<>>
          /\ n.protocol = OfferResolved.protocol
          /\ n.hostname = OfferResolved.hostname
          /\ n.pathname = OfferResolved.pathname
          /\ Normalized(OfferClean, url) = OfferClean
          /\ offer.outcome = "pushed" => urlQueue = Append(offer.before, OfferClean)
          /\ offer.link = LinkLogin =>
               /\ n.pathname = <<"/", "l", "o", "g", "i", "n">>
               /\ offer.outcome = "sessionPage"
  /\ pc = "extract" =>
       \A l1, l2 \in LinkUniverse :
         LET r1 == resolve(l1, parseAbsolute(url))
             r2 == resolve(l2, parseAbsolute(url))
         IN r1.ok /\ r2.ok =>
              ((Normalized(l1, url) = Normalized(l2, url))
                 <=> (r1.protocol = r2.protocol /\ r1.hostname = r2.hostname
                       /\ r1.pathname = r2.pathname))

\* a link with a query string and a fragment was offered and found to be a
\* URL already queued
C6_Witness ==
  Offered /\ OfferResolved.ok /\ OfferResolved.search # <<>> /\ OfferResolved.hash # <<>>
  /\ offer.outcome = "known" /\ OfferClean \in Range(offer.before)

\* C7: the URL of a caught error stays crawled, is not queued again and was
\* processed once; every processed URL is crawled; the loop ends only on an
\* empty queue or a reached budget
C7_FailureIsContained ==
  /\ lastError # <<>> =>
       /\ lastError \in crawledUrls
       /\ lastError \notin Range(urlQueue)
       /\ Count(processed, lastError) = 1
  /\ Range(processed) \subseteq crawledUrls
  /\ pc = "done" => (urlQueue = <<>> \/ Cardinality(crawledUrls) >= maxUrlsToCrawl)

\* after a caught error the loop is processing a later URL
C7_Witness ==
  lastError # <<>> /\ url # lastError /\ pc = "crawlRule" /\ url \in crawledUrls

\* C8: a link that does not resolve leaves the queue and the crawled set as
\* they were, is dropped by the inner catch with nothing logged, and the for
\* loop goes on without the per-URL catch being entered
C8_MalformedLinkDiscarded ==
  (Offered /\ ~OfferResolved.ok) =>
    /\ urlQueue = offer.before
    /\ crawledUrls = offer.crawled
    /\ offer.outcome = "invalid"
    /\ pc = "links"
    /\ lastError # url

\* a malformed link was handled and the page has links left
C8_Witness ==
  Offered /\ ~OfferResolved.ok /\ links > 0 /\ offer.before # <<>>

\* C9: the URLs dequeued so far followed by the queue are the URLs accepted,
\* in the order of acceptance; an accepted link goes to the end of the queue
C9_Fifo ==
  /\ accepted = [i \in 1..Len(dequeued) |-> dequeued[i].url] \o urlQueue
  /\ (Offered /\ offer.outcome = "pushed") =>
       (urlQueue = Append(offer.before, OfferClean) /\ OfferClean \notin Range(offer.before))

\* two links of the start page were dequeued in the order of their acceptance
C9_Witness ==
  /\ Len(dequeued) >= 3
  /\ Len(accepted) >= 3
  /\ dequeued[2].url = accepted[2]
  /\ dequeued[3].url = accepted[3]
  /\ accepted[2] # accepted[3]

\* position of main in a turn of the loop, later positions lower
pcRank ==
  CASE pc = "done" -> 0
    [] pc = "loop" -> 1
    [] pc = "delay" -> 2
    [] pc = "links" -> 3
    [] pc = "extract" -> 4
    [] pc = "storeLLM" -> 5
    [] pc = "crawlLLM" -> 6
    [] pc = "storeRule" -> 7
    [] pc = "crawlRule" -> 8

\* what is left of the run: budget, position in the turn, links of the page,
\* queued URLs
Measure ==
  <<maxUrlsToCrawl - Cardinality(crawledUrls), pcRank, links, Len(urlQueue)>>

\* lexicographic order on tuples of four numbers
LexLess(a, b) ==
  \E k \in 1..4 : a[k] < b[k] /\ \A j \in 1..(k - 1) : a[j] = b[j]
\* C10: every step of a run (a call returning or throwing, or the code up to
\* the next call) lowers a measure that is a tuple of four natural numbers
\* ordered lexicographically, so that no run takes steps for ever, whatever
\* links the pages return; the loop is left only with the queue empty or the
\* budget used up
C10_Terminates ==
  /\ [][LexLess(Measure', Measure) /\ \A k \in 1..4 : Measure'[k] \in Nat]_vars
  /\ [](pc = "done" => (urlQueue = <<>> \/ Cardinality(crawledUrls) >= maxUrlsToCrawl))

\* a run ended on the budget with several URLs still queued, after a page
\* below a page it had crawled: its pages kept producing new links
C10_Witness ==
  pc = "done" /\ Len(urlQueue) >= 2 /\ Cardinality(crawledUrls) = maxUrlsToCrawl
  /\ \E u \in crawledUrls : Len(u) > Len(startUrl)

(***************************************************************************)
(* Properties of the analyzers.                                            *)
(***************************************************************************)
\* the actions of one type among those the rule-based analyzer returned
ActionsOfType(type) == SelectSeq(actions, LAMBDA a : a.type = type)

\* the candidate sets of the detectors, of the CrawlResult as handed over
UsernameCandidates == SelectSeq(passed.elements, isUsernameInput)
PasswordCandidates == SelectSeq(passed.elements, isPasswordInput)
SubmitCandidates == SelectSeq(passed.elements, isSubmitButton)
SearchInputCandidates == SelectSeq(passed.elements, isSearchInput)
SearchButtonCandidates == SelectSeq(passed.elements, isSearchButton)
NavContainers == SelectSeq(passed.elements, isNavElement)

\* c is a member of candidates that no member is nearer to el than
Nearest(el, c, candidates) ==
  /\ c \in Range(candidates)
  /\ \A d \in Range(candidates) :
       calculateDistance(el.position, c.position) <= calculateDistance(el.position, d.position)

\* C11: when the completion call of the LLM analyzer fails (the call throws,
\* as it does for a completion that does not fit the schema), the LLM path
\* returns no action and no error: the step from the LLM crawl goes on to
\* link extraction, nothing is logged by the per-URL catch, and what was
\* stored for the URL stays stored
C11_LLMFailureYieldsNoActions ==
  [][(pc = "crawlLLM" /\ llm' # "idle" /\ completion'.threw) =>
       (/\ llm' = "returned"
        /\ llmActions' = <<>>
        /\ pc' = "extract"
        /\ stored' = stored
        /\ lastError' = lastError
        /\ urlQueue' = urlQueue /\ crawledUrls' = crawledUrls)]_vars

\* the completion call failed for a URL whose rule-based actions are stored,
\* and the run is about to read the links of the page
C11_Witness ==
  pc = "extract" /\ llm = "returned" /\ completion.threw /\ llmActions = <<>>
  /\ "rule" \in stored /\ lastError # url

\* C12: every action the rule-based analyzer returns has at least one
\* element, all of its elements are elements of the CrawlResult it was given,
\* its url is the CrawlResult's and its confidence is between 0 and 1
C12_RuleActionsWellFormed ==
  runs > 0 =>
    \A i \in 1..Len(actions) :
      /\ actions[i].elements # <<>>
      /\ Range(actions[i].elements) \subseteq Range(passed.elements)
      /\ actions[i].url = passed.url
      /\ actions[i].confidence \in 0..100

\* the analyzer returned actions of two detectors
C12_Witness ==
  runs > 0 /\ \E i, j \in 1..Len(actions) :
    actions[i].type = "login" /\ actions[j].type = "form"

\* C13: every action the LLM analyzer returns has at least one element and
\* only elements of the CrawlResult it was given
C13_LLMActionsHaveElements ==
  llm = "returned" =>
    \A i \in 1..Len(llmActions) :
      /\ llmActions[i].elements # <<>>
      /\ Range(llmActions[i].elements) \subseteq Range(passed.elements)

C16_LoginPerUsername ==
  runs > 0 =>
    IF UsernameCandidates = <<>> \/ PasswordCandidates = <<>>
    THEN ActionsOfType("login") = <<>>
    ELSE /\ Len(ActionsOfType("login")) = Len(UsernameCandidates)
         /\ \A i \in 1..Len(UsernameCandidates) :
              ActionsOfType("login")[i].elements[1] = UsernameCandidates[i]

\* two username candidates, the password candidate 60px away from them
C16_Witness ==
  /\ runs > 0
  /\ Len(UsernameCandidates) = 2
  /\ PasswordCandidates = <<FarPasswordInput>>
  /\ Len(ActionsOfType("login")) = 2

\* C17: for a list of three elements, a username candidate and a password
\* candidate at one position and a submit candidate within 5px of them, the
\* login detector returns one action, of confidence 0.9, whose elements are
\* the three, username first, then password, then submit
C17_LoginTriple ==
  (runs > 0 /\ Len(passed.elements) = 3) =>
    \A u, p, s \in Range(passed.elements) :
      (/\ u # p /\ p # s /\ u # s
       /\ isUsernameInput(u) /\ isPasswordInput(p) /\ isSubmitButton(s)
       /\ u.position = p.position
       /\ calculateDistance(p.position, s.position) <= 5 * 5)
      => /\ Len(ActionsOfType("login")) = 1
         /\ ActionsOfType("login")[1].confidence = 90
         /\ ActionsOfType("login")[1].elements = <<u, p, s>>

\* C18: with a username candidate and a password candidate and no submit-like
\* input or button, every login action has confidence 0.7 and two elements,
\* a username candidate and a password candidate nearest to it
C18_LoginWithoutSubmit ==
  (runs > 0 /\ UsernameCandidates # <<>> /\ PasswordCandidates # <<>>
     /\ SubmitCandidates = <<>>) =>
    /\ ActionsOfType("login") # <<>>
    /\ \A i \in 1..Len(ActionsOfType("login")) :
         LET a == ActionsOfType("login")[i]
         IN /\ a.confidence = 70
            /\ Len(a.elements) = 2
            /\ a.elements[1] = UsernameCandidates[i]
            /\ Nearest(a.elements[1], a.elements[2], PasswordCandidates)

\* no submit-like element, and the nearest password candidate is not the
\* first one in element order
C18_Witness ==
  /\ runs > 0 /\ UsernameCandidates # <<>> /\ SubmitCandidates = <<>>
  /\ Len(PasswordCandidates) = 2
  /\ ActionsOfType("login") # <<>>
  /\ ActionsOfType("login")[1].elements[2] # PasswordCandidates[1]

\* C19: the search detector returns one action for every search-input
\* candidate, in element order: with a search-button candidate, confidence
\* 0.9 and the input followed by a button no other button is nearer than;
\* with none, confidence 0.7 and the input alone
C19_SearchPerInput ==
  runs > 0 =>
    /\ Len(ActionsOfType("search")) = Len(SearchInputCandidates)
    /\ \A i \in 1..Len(SearchInputCandidates) :
         LET a == ActionsOfType("search")[i]
         IN IF SearchButtonCandidates # <<>>
            THEN /\ a.confidence = 90
                 /\ Len(a.elements) = 2
                 /\ a.elements[1] = SearchInputCandidates[i]
                 /\ Nearest(a.elements[1], a.elements[2], SearchButtonCandidates)
            ELSE /\ a.confidence = 70
                 /\ a.elements = <<SearchInputCandidates[i]>>

\* a search input with several buttons, the nearest not the first of them
C19_Witness ==
  /\ runs > 0
  /\ Len(SearchButtonCandidates) >= 2
  /\ \E i \in 1..Len(SearchInputCandidates) :
       /\ SearchInputCandidates[i] \notin Range(SearchButtonCandidates)
       /\ ActionsOfType("search")[i].elements[2] # SearchButtonCandidates[1]
       /\ calculateDistance(SearchInputCandidates[i].position, SearchButtonCandidates[1].position)
            > calculateDistance(SearchInputCandidates[i].position,
                                ActionsOfType("search")[i].elements[2].position)

\* the greatest difference between the vertical positions of the elements
Spread(es) ==
  IF es = <<>> THEN 0
  ELSE CHOOSE d \in {abs(es[i].position.y - es[j].position.y) : i, j \in 1..Len(es)} :
         \A i, j \in 1..Len(es) : abs(es[i].position.y - es[j].position.y) <= d

\* what the claim about the groups of anchors says of the anchors given
NavigationByGroups(anchors) ==
  (runs > 0 /\ NavContainers = <<>>) =>
    /\ (Len(anchors) = 4 /\ Spread(anchors) <= 15) =>
         /\ Len(ActionsOfType("navigation")) = 1
         /\ ActionsOfType("navigation")[1].confidence = 70
         /\ ActionsOfType("navigation")[1].elements = anchors
    /\ (Len(anchors) = 2 /\ Spread(anchors) < 20) => ActionsOfType("navigation") = <<>>
    /\ LET groups == SelectSeq(groupLinks(anchors), LAMBDA g : Len(g) >= 3)
       IN /\ Len(ActionsOfType("navigation")) = Len(groups)
          /\ \A i \in 1..Len(groups) :
               /\ ActionsOfType("navigation")[i].confidence = 70
               /\ ActionsOfType("navigation")[i].elements = groups[i]

\* C20 as stated: the anchors are the a elements
C20_AnchorGroups ==
  NavigationByGroups(SelectSeq(passed.elements, LAMBDA el : el.type = <<"a">>))

\* C20: with no nav-like container, 4 a elements with an href within a 15px
\* vertical spread give one navigation action, of confidence 0.7, with the 4
\* as its elements; 2 such elements in one cluster give none; the navigation
\* actions are those of the groups of at least 3 a elements with an href,
\* each of confidence 0.7; an a element without href is in no group
C20_LinkGroups ==
  /\ NavigationByGroups(SelectSeq(passed.elements, isLink))
  /\ \A i \in 1..Len(ActionsOfType("navigation")) :
       \A el \in Range(ActionsOfType("navigation")[i].elements) :
         NavContainers = <<>> => el.attributes.href # <<>>

\* 4 links within 15px made one menu, on a page with no nav-like container
C20_Witness ==
  /\ runs > 0 /\ NavContainers = <<>>
  /\ Len(SelectSeq(passed.elements, isLink)) = 4
  /\ Spread(passed.elements) = 15
  /\ Len(ActionsOfType("navigation")) = 1
  /\ Len(ActionsOfType("navigation")[1].elements) = 4

(***************************************************************************)
(* The form detector and the order of the detectors                        *)
(***************************************************************************)
FormTypes == {"registration", "contact", "form"}

\* the actions of the last call that the form detector made
FormActions == SelectSeq(actions, LAMBDA a : a.type \in FormTypes)

\* the actions the form detector made for a form element
ActionsOfForm(f) == SelectSeq(FormActions, LAMBDA a : a.elements[1] = f)

Forms == {el \in Range(passed.elements) : el.type = <<"f", "o", "r", "m">>}

\* the box of a form: form.y <= y <= form.y + 500, form.x <= x <= form.x + 1000
InBox(el, f) ==
  /\ f.position.y <= el.position.y /\ el.position.y <= f.position.y + 500
  /\ f.position.x <= el.position.x /\ el.position.x <= f.position.x + 1000

\* an input, textarea or select element
IsField(el) == el.type \in {<<"i", "n", "p", "u", "t">>, <<"t", "e", "x", "t", "a", "r", "e", "a">>, <<"s", "e", "l", "e", "c", "t">>}

\* the word is in the name, the id or the placeholder of the element
Names(el, word) ==
  \/ lowerIncludes(el.attributes.name, word)
  \/ lowerIncludes(el.attributes.id, word)
  \/ lowerIncludes(el.attributes.placeholder, word)

IsNameInput(el) == IsField(el) /\ Names(el, <<"n", "a", "m", "e">>)
IsEmailInput(el) == IsField(el) /\ (el.attributes.type = <<"e", "m", "a", "i", "l">> \/ Names(el, <<"e", "m", "a", "i", "l">>))
IsPasswordField(el) == IsField(el) /\ (el.attributes.type = <<"p", "a", "s", "s", "w", "o", "r", "d">> \/ Names(el, <<"p", "a", "s", "s", "w", "o", "r", "d">>))
IsMessageField(el) == IsField(el) /\ (el.type = <<"t", "e", "x", "t", "a", "r", "e", "a">> \/ Names(el, <<"m", "e", "s", "s", "a", "g", "e">>))
IsSubjectField(el) == IsField(el) /\ Names(el, <<"s", "u", "b", "j", "e", "c", "t">>)
IsSignUpButton(el) == el.type = <<"b", "u", "t", "t", "o", "n">> /\ el.text = <<"S", "i", "g", "n", " ", "U", "p">>

\* C21: for a form element with a name input, an email input, a password
\* input and a "Sign Up" button, all inside the box of the form, the form
\* detector returns exactly one action for the form; its type is
\* registration, its confidence 0.9, and the form, the three inputs and the
\* button are among its elements.
C21_RegistrationForm ==
  runs > 0 =>
    \A f \in Forms :
      \A n, e, p, b \in {el \in Range(passed.elements) : InBox(el, f)} :
        IsNameInput(n) /\ IsEmailInput(e) /\ IsPasswordField(p) /\ IsSignUpButton(b) =>
          /\ Len(ActionsOfForm(f)) = 1
          /\ ActionsOfForm(f)[1].type = "registration"
          /\ ActionsOfForm(f)[1].confidence = 90
          /\ {f, n, e, p, b} \subseteq Range(ActionsOfForm(f)[1].elements)

C21_Witness ==
  /\ runs > 0
  /\ {FormElement, NameInput, EmailInput, PasswordInput, SignUpButton} \subseteq Range(passed.elements)
  /\ SubmitInput \notin Range(passed.elements)
  /\ \E i \in 1..Len(actions) :
       /\ actions[i].type = "registration"
       /\ actions[i].elements[1] = FormElement
       /\ SignUpButton \in Range(actions[i].elements)

\* C22: analyzeActions returns the actions of the login detector, then those
\* of the search detector, then those of the navigation detector, then those
\* of the form detector, none removed and none merged: as many actions as the
\* four detectors return together.  An element can be in actions of several
\* detectors.
C22_Concatenation ==
  runs > 0 =>
    LET login == identifyLoginForms(passed).actions
        search == identifySearchInterfaces(passed).actions
        navigation == identifyNavigationMenus(passed).actions
        form == identifyForms(passed).actions
    IN /\ actions = login \o search \o navigation \o form
       /\ Len(actions) = Len(login) + Len(search) + Len(navigation) + Len(form)

C22_Witness ==
  /\ runs > 0
  /\ \E i, j \in 1..Len(actions) :
       /\ i < j
       /\ actions[i].type = "login"
       /\ actions[j].type \in FormTypes
       /\ Range(actions[j].elements) \cap Range(actions[i].elements) # {}

(***************************************************************************)
(* The navigation detector                                                 *)
(***************************************************************************)
\* the navigation actions of confidence 0.8 of the last call
ContainerMenus == SelectSeq(ActionsOfType("navigation"), LAMBDA a : a.confidence = 80)

\* the members of anchors in the box of a container:
\* container.y <= y <= container.y + 100, container.x <= x <= container.x + 1000
PairedWith(container, anchors) ==
  SelectSeq(anchors, LAMBDA a :
    /\ container.position.y <= a.position.y /\ a.position.y <= container.position.y + 100
    /\ container.position.x <= a.position.x /\ a.position.x <= container.position.x + 1000)

\* what the claim about the containers says of the anchors given: the actions
\* of confidence 0.8 are those of the containers with at least 3 anchors in
\* their box, each with the container and then those anchors as its elements
NavigationByContainers(anchors) ==
  runs > 0 =>
    LET emitting == SelectSeq(NavContainers, LAMBDA c : Len(PairedWith(c, anchors)) >= 3)
    IN /\ Len(ContainerMenus) = Len(emitting)
       /\ \A i \in 1..Len(emitting) :
            ContainerMenus[i].elements = <<emitting[i]>> \o PairedWith(emitting[i], anchors)

\* C23 as stated: the anchors are the a elements
C23_AnchorContainers ==
  NavigationByContainers(SelectSeq(passed.elements, LAMBDA el : el.type = <<"a">>))

\* C23: the a elements with an href that a nav-like container is paired with
\* are those at container.y <= y <= container.y + 100 and
\* container.x <= x <= container.x + 1000, the edges included; a container
\* gives a navigation action of confidence 0.8, with the container and then
\* those elements, exactly when they are at least 3; an a element without
\* href is paired with no container
C23_LinkContainers ==
  /\ NavigationByContainers(SelectSeq(passed.elements, isLink))
  /\ \A i \in 1..Len(ContainerMenus) :
       \A k \in 2..Len(ContainerMenus[i].elements) :
         ContainerMenus[i].elements[k].attributes.href # <<>>

\* a container made a menu of three links, two of them on edges of its box
C23_Witness ==
  /\ runs > 0
  /\ Len(ContainerMenus) = 1
  /\ ContainerMenus[1].elements[1] = NavElement
  /\ Len(ContainerMenus[1].elements) = 4
  /\ {Anchor1, Anchor4} \subseteq Range(ContainerMenus[1].elements)

\* the groups the claim describes: an anchor joins the first group whose
\* first member is at most 20px above or below it, or starts a group
RECURSIVE GroupsWithinTwenty(_)
GroupsWithinTwenty(anchors) ==
  IF anchors = <<>> THEN <<>>
  ELSE LET groups == GroupsWithinTwenty(SubSeq(anchors, 1, Len(anchors) - 1))
           a == anchors[Len(anchors)]
           near == {g \in 1..Len(groups) : abs(a.position.y - groups[g][1].position.y) <= 20}
       IN IF near = {} THEN Append(groups, <<a>>)
          ELSE [groups EXCEPT ![CHOOSE g \in near : \A h \in near : g <= h] = Append(@, a)]

\* C24: the links, taken in element order, are grouped so that a link joins
\* the first group whose first member is at a vertical distance d of at most
\* 20px, 0 <= d <= 20, and starts a group otherwise; every link is in exactly
\* one group; when no container made a menu the navigation actions are those
\* of the groups of at least 3
C24_GroupsWithinTwenty ==
  runs > 0 =>
    LET anchors == SelectSeq(passed.elements, isLink)
        claimed == GroupsWithinTwenty(anchors)
    IN /\ groupLinks(anchors) = claimed
       /\ \A a \in Range(anchors) :
            Cardinality({g \in 1..Len(groupLinks(anchors)) : a \in Range(groupLinks(anchors)[g])}) = 1
       /\ ContainerMenus = <<>> =>
            [i \in 1..Len(ActionsOfType("navigation")) |-> ActionsOfType("navigation")[i].elements]
              = SelectSeq(claimed, LAMBDA g : Len(g) >= 3)

\* the input fields and the submit-like buttons in the box of a form
FieldsOf(f) == {el \in Range(passed.elements) : IsField(el) /\ InBox(el, f)}
SubmitsOf(f) == {el \in Range(passed.elements) : isFormSubmitButton(el) /\ InBox(el, f)}

\* C25: the form detector returns an action for a form element exactly when
\* at least 2 input, textarea or select elements and at least 1 submit-like
\* button are in the box of the form, form.y <= y <= form.y + 500 and
\* form.x <= x <= form.x + 1000; with fewer than 2 such inputs or with no
\* submit-like button in the box it returns none for the form.
C25_FormEmission ==
  runs > 0 =>
    \A f \in Forms :
      /\ Len(ActionsOfForm(f)) <= 1
      /\ Len(ActionsOfForm(f)) = 1 <=>
           (Cardinality(FieldsOf(f)) >= 2 /\ Cardinality(SubmitsOf(f)) >= 1)

\* a form with exactly two inputs, on the corners of its box, and a button
\* gave an action; the input one pixel below the box is not in it
C25_Witness ==
  /\ runs > 0
  /\ SubmitInput \in Range(passed.elements)
  /\ FieldsOf(FormElement) = {PasswordInput, SubjectInput}
  /\ Len(ActionsOfForm(FormElement)) = 1
  /\ ActionsOfForm(FormElement)[1].elements = <<FormElement, PasswordInput, SubjectInput, SignUpButton>>

\* the type the claim gives a form with the five flags
SignatureType(hasName, hasEmail, hasPassword, hasMessage, hasSubject) ==
  IF hasName /\ hasEmail /\ hasPassword THEN "registration"
  ELSE IF (hasName /\ hasEmail /\ hasMessage) \/ (hasEmail /\ hasSubject /\ hasMessage) THEN "contact"
  ELSE "form"

\* C26: the type of a form action is a function of the five flags of the
\* inputs of the form: name, email and password give registration, before
\* contact is looked at; otherwise name, email and message, or email, subject
\* and message, give contact; everything else gives form; the confidence is
\* 0.9 for registration and contact and 0.7 for form, so it is 0.9 exactly
\* when the type is registration or contact.
C26_FormSignature ==
  runs > 0 =>
    \A i \in 1..Len(FormActions) :
      LET fields == FieldsOf(FormActions[i].elements[1])
          type == SignatureType(\E el \in fields : IsNameInput(el),
                                \E el \in fields : IsEmailInput(el),
                                \E el \in fields : IsPasswordField(el),
                                \E el \in fields : IsMessageField(el),
                                \E el \in fields : IsSubjectField(el))
      IN /\ FormActions[i].type = type
         /\ FormActions[i].confidence = IF type = "form" THEN 70 ELSE 90
         /\ FormActions[i].confidence = 90 <=> FormActions[i].type \in {"registration", "contact"}

\* a form with the signature of a registration and that of a contact form is
\* a registration form
C26_Witness ==
  /\ runs > 0
  /\ {NameInput, EmailInput, PasswordInput, MessageArea} \subseteq FieldsOf(FormElement)
  /\ Len(ActionsOfForm(FormElement)) = 1
  /\ ActionsOfForm(FormElement)[1].type = "registration"
  /\ ActionsOfForm(FormElement)[1].confidence = 90

\* C27: the elements of an action of the rule-based analyzer are pairwise
\* different: the username, the password and the submit element of a login
\* action, the input and the button of a search action, the elements of a
\* navigation action and those of a form action.
C27_ElementsDistinct ==
  \A i \in 1..Len(actions) : NoDup(actions[i].elements)

(***************************************************************************)
(* The turn of the crawl loop after the page is fetched                    *)
(***************************************************************************)
\* the positions of a turn after the rule-based crawlUrl returned and before
\* the links of the page are read
AfterRuleBased == {"storeRule", "crawlLLM", "storeLLM"}

\* C28: once the page of the dequeued URL is fetched and the rule-based
\* analyzer returned, the turn goes on to read the links of the page and to
\* offer them to the queue: no step taken while the actions are stored or the
\* LLM path runs, a failing one included, leads to the next turn of the loop.
C28_LinksExtractedAfterFetch ==
  [][(pc \in AfterRuleBased) => (pc' \in AfterRuleBased \/ pc' = "extract")]_vars

\* C29: crawlPage is called once for a dequeued URL: never more than once
\* during its turn, and exactly once when the links of the page are read,
\* with the LLM analyzer configured or not.
C29_FetchedOnce ==
  /\ fetches <= 1
  /\ pc \in {"extract", "links", "delay"} => fetches = 1

====
